---- MODULE Spec2Model ----
(***************************************************************************)
(* Model of custom_components/waste_collection_schedule/sensor.py:         *)
(* the ScheduleSensor entity, its refresh routine _update_sensor and the   *)
(* provider interface it consumes.                                         *)
(***************************************************************************)
EXTENDS Integers, Sequences, FiniteSets, TLC

(* ------------------------------------------------------------------ *)
(* Optional values: Python None is the empty set, a present value v    *)
(* is the singleton {v}.                                               *)
(* ------------------------------------------------------------------ *)
None == {}

Some(v) == {v}

Get(o) == CHOOSE v \in o : TRUE

(* ------------------------------------------------------------------ *)
(* Bounds of the model.                                                *)
(* ------------------------------------------------------------------ *)
MaxEntries == 3

(* ------------------------------------------------------------------ *)
(* Input domains.                                                      *)
(* ------------------------------------------------------------------ *)
\* waste types, listed in lexicographic order (the order sorted() yields)
TypeNames == <<"Glass", "Paper", "Plastic">>

Types == {TypeNames[i] : i \in 1..Len(TypeNames)}

\* collection days as offsets from today (2020-03-30): today, 2020-04-01
\* and 2020-04-08
Days == {0, 2, 9}

\* the collection calendar the source's entries are drawn from
Entries ==
  {e \in [date : Days, type : Types] :
     \/ e.date = 0 /\ e.type \in {"Glass", "Plastic"}
     \/ e.date = 2 /\ e.type \in {"Paper", "Plastic"}
     \/ e.date = 9 /\ e.type \in {"Glass", "Paper"}}

\* hours of the day the clock is observed at
Hours == {9, 11}

\* hours of the day the source fetches at
FetchHours == {1}

SourceIndexes == {0, 5}

Counts == {None, Some(1)}

Leadtimes == {None, Some(5)}

TypeFilters == {None, Some(<<"Paper", "Glass">>)}

ValueTemplates == {None, Some("{{value.daysTo}}")}

DateTemplates == {None, Some("{{value.date.strftime('%a')}}")}

DetailsFormat == {"upcoming", "appointment_types", "generic"}

Configs ==
  [source_index : SourceIndexes, details_format : DetailsFormat,
   count : Counts, leadtime : Leadtimes, appointment_types : TypeFilters,
   value_template : ValueTemplates, date_template : DateTemplates]

(* ------------------------------------------------------------------ *)
(* Strings.                                                            *)
(* ------------------------------------------------------------------ *)
Pad2(n) == IF n < 10 THEN "0" \o ToString(n) ELSE ToString(n)

\* date.isoformat() of the day d days after 2020-03-30
IsoDate(d) ==
  IF d <= 1 THEN "2020-03-" \o Pad2(30 + d) ELSE "2020-04-" \o Pad2(d - 1)

WeekdayNames == <<"Mon", "Tue", "Wed", "Thu", "Fri", "Sat", "Sun">>

\* date.strftime('%a'): 2020-03-30 is a Monday
Weekday(d) == WeekdayNames[(d % 7) + 1]

RECURSIVE Join(_, _)
\* str.join
Join(sep, seq) ==
  IF Len(seq) = 0 THEN ""
  ELSE IF Len(seq) = 1 THEN seq[1]
  ELSE seq[1] \o sep \o Join(sep, Tail(seq))

SeqToSet(seq) == {seq[i] : i \in 1..Len(seq)}

Take(seq, n) == SubSeq(seq, 1, IF n < Len(seq) THEN n ELSE Len(seq))

(* ------------------------------------------------------------------ *)
(* The provider ("schedule API") and its data sources.  This code is   *)
(* consumed by sensor.py through the interface below.                  *)
(* ------------------------------------------------------------------ *)
\* api.separator
Separator == ", "

\* api._day_switch_time (hour of the day)
DaySwitchTime == 10

\* icon and picture of a waste type as the source supplies them
TypeIcon(t) ==
  IF t = "Glass" THEN Some("mdi:bottle-soda")
  ELSE IF t = "Paper" THEN Some("mdi:newspaper")
  ELSE None

TypePicture(t) == IF t = "Paper" THEN Some("paper.png") ELSE None

TypeRank(t) == CHOOSE i \in 1..Len(TypeNames) : TypeNames[i] = t

\* one appointment: a date and one type
Appointment(e) ==
  [date |-> e.date, types |-> <<e.type>>, daysTo |-> e.date,
   icon |-> TypeIcon(e.type), picture |-> TypePicture(e.type)]

EntryBefore(a, b) ==
  \/ a.date < b.date
  \/ a.date = b.date /\ TypeRank(a.type) < TypeRank(b.type)

RECURSIVE SortEntries(_)
\* the entries of a set as a sequence ordered by date (then by type)
SortEntries(S) ==
  IF S = {} THEN <<>>
  ELSE LET m == CHOOSE a \in S : \A b \in S \ {a} : EntryBefore(a, b)
       IN <<m>> \o SortEntries(S \ {m})

\* the filter behind both queries: type filter, expired entries (today
\* counts only when include_today), lead time, order by date, count
FilterEntries(entries, count, leadtime, types, include_today) ==
  LET byType == IF types = None THEN entries
                ELSE {e \in entries : e.type \in SeqToSet(Get(types))}
      future == IF include_today THEN {e \in byType : e.date >= 0}
                ELSE {e \in byType : e.date > 0}
      lead   == IF leadtime = None THEN future
                ELSE {e \in future : e.date >= Get(leadtime)}
      sorted == SortEntries(lead)
  IN IF count = None THEN sorted ELSE Take(sorted, Get(count))

\* scraper.get_upcoming(count, leadtime, types, include_today)
GetUpcoming(entries, count, leadtime, types, include_today) ==
  LET es == FilterEntries(entries, count, leadtime, types, include_today)
  IN [i \in 1..Len(es) |-> Appointment(es[i])]

\* one day's appointments merged into a group
AppointmentGroup(es) ==
  [date |-> es[1].date, types |-> [i \in 1..Len(es) |-> es[i].type],
   daysTo |-> es[1].date, icon |-> TypeIcon(es[1].type),
   picture |-> TypePicture(es[1].type)]

RECURSIVE GroupByDay(_)
GroupByDay(es) ==
  IF Len(es) = 0 THEN <<>>
  ELSE LET same == SelectSeq(es, LAMBDA e : e.date = es[1].date)
           rest == SelectSeq(es, LAMBDA e : e.date # es[1].date)
       IN <<AppointmentGroup(same)>> \o GroupByDay(rest)

\* scraper.get_upcoming_group_by_day(count, leadtime, types, include_today)
GetUpcomingGroupByDay(entries, count, leadtime, types, include_today) ==
  LET groups ==
        GroupByDay(FilterEntries(entries, None, leadtime, types, include_today))
  IN IF count = None THEN groups ELSE Take(groups, Get(count))

\* scraper.get_types()
GetTypes(entries) == {e.type : e \in entries}

\* api.get_scraper(index): the source at the index, or None
GetScraper(scrapers, index) ==
  IF index < Len(scrapers) THEN Some(scrapers[index + 1]) ELSE None

(* ------------------------------------------------------------------ *)
(* State.                                                              *)
(* ------------------------------------------------------------------ *)
VARIABLES
  cfg,          \* the constructor arguments kept by ScheduleSensor
  entries,      \* the data source's collection entries
  refreshtime,  \* the data source's last fetch time, None before the first
  now,          \* hour of the day
  hass,         \* self.hass: None until the entity is attached to the host
  subscribed,   \* _update_sensor is connected to UPDATE_SENSORS_SIGNAL
  _state,       \* self._state
  _icon,        \* self._icon
  _picture,     \* self._picture
  _attributes,  \* self._attributes, an ordered mapping
  log,          \* error entries written by the latest call of _update_sensor
  notified,     \* state-changed notifications sent by the latest call
  raised,       \* the latest call of _update_sensor raised
  last          \* what happened last: "init", a call of _update_sensor
                \* that ended "updated", "skipped" or "raised", or "idle"

vars ==
  <<cfg, entries, refreshtime, now, hass, subscribed, _state, _icon,
    _picture, _attributes, log, notified, raised, last>>

(* ------------------------------------------------------------------ *)
(* Attribute mappings (collections.OrderedDict) and attribute values.  *)
(* ------------------------------------------------------------------ *)
StrVal(s) == [text |-> s, names |-> <<>>, appts |-> <<>>]

NamesVal(l) == [text |-> "", names |-> l, appts |-> <<>>]

ApptsVal(l) == [text |-> "", names |-> <<>>, appts |-> l]

Keys(d) == {d[i].key : i \in 1..Len(d)}

HasKey(d, k) == k \in Keys(d)

Lookup(d, k) == d[CHOOSE i \in 1..Len(d) : d[i].key = k].value

\* d[k] = v: a new key goes last, a key already present keeps its place
DictSet(d, k, v) ==
  IF HasKey(d, k)
  THEN [i \in 1..Len(d) |-> IF d[i].key = k THEN [key |-> k, value |-> v] ELSE d[i]]
  ELSE Append(d, [key |-> k, value |-> v])

(* ------------------------------------------------------------------ *)
(* ScheduleSensor.                                                     *)
(* ------------------------------------------------------------------ *)
STATE_UNKNOWN == "unknown"

\* the sensor object's display fields
Self ==
  [state |-> _state, icon |-> _icon, picture |-> _picture,
   attributes |-> _attributes]

\* the fields as __init__ leaves them
InitSelf ==
  [state |-> STATE_UNKNOWN, icon |-> None, picture |-> None,
   attributes |-> <<>>]

\* property icon
Icon(self) == IF self.icon = None THEN "mdi:trash-can" ELSE Get(self.icon)

\* property entity_picture
EntityPicture(self) == self.picture

\* the provider's sources: one source is configured
Scrapers == <<[entries |-> entries, refreshtime |-> refreshtime]>>

\* property _scraper
Scraper(c, scrapers) == GetScraper(scrapers, c.source_index)

\* property _include_today
IncludeToday(hour) == hour < DaySwitchTime

\* Template.async_render_with_possible_json_value(appointment, None) for
\* the templates of the input domain
RenderTemplate(template, appointment) ==
  IF template = "{{value.daysTo}}" THEN ToString(appointment.daysTo)
  ELSE IF template = "{{value.date.strftime('%a')}}" THEN Weekday(appointment.date)
  ELSE template

\* refreshtime.strftime("%x %X")
StrfTime(t) == "03/30/20 " \o Pad2(t) \o ":00:00"

\* refreshtime.isoformat(timespec="seconds")
IsoTime(t) == "2020-03-30T" \o Pad2(t) \o ":00:00"

\* _add_refreshtime printing the time as isoformat does
AddRefreshtimeIso(attributes, scraper) ==
  LET rt == IF scraper.refreshtime # None
            THEN IsoTime(Get(scraper.refreshtime)) ELSE ""
  IN DictSet(attributes, "attribution", StrVal("Last update: " \o rt))

\* _add_refreshtime
AddRefreshtime(attributes, scraper) ==
  LET rt == IF scraper.refreshtime # None
            THEN StrfTime(Get(scraper.refreshtime)) ELSE ""
  IN DictSet(attributes, "attribution", StrVal("Last update: " \o rt))

\* the text _set_state synthesizes without a value template
DefaultState(appointment) ==
  Join(Separator, appointment.types) \o " in "
    \o ToString(appointment.daysTo) \o " days"

\* _set_state without the reset of icon and picture
SetStateKeepsIcon(self, c, upcoming) ==
  IF Len(upcoming) = 0
  THEN [self EXCEPT !.state = ""]
  ELSE LET appointment == upcoming[1]
       IN [self EXCEPT
             !.state = IF c.value_template # None
                       THEN RenderTemplate(Get(c.value_template), appointment)
                       ELSE DefaultState(appointment),
             !.icon = appointment.icon,
             !.picture = appointment.picture]

\* _set_state with the synthesized text put after the template's output
SetStateAppends(self, c, upcoming) ==
  IF Len(upcoming) = 0
  THEN [self EXCEPT !.state = "", !.icon = None, !.picture = None]
  ELSE LET appointment == upcoming[1]
       IN [self EXCEPT
             !.state = IF c.value_template # None
                       THEN RenderTemplate(Get(c.value_template), appointment)
                              \o " " \o DefaultState(appointment)
                       ELSE DefaultState(appointment),
             !.icon = appointment.icon,
             !.picture = appointment.picture]

\* _set_state
SetState(self, c, upcoming) ==
  IF Len(upcoming) = 0
  THEN [self EXCEPT !.state = "", !.icon = None, !.picture = None]
  ELSE LET appointment == upcoming[1]
       IN [self EXCEPT
             !.state = IF c.value_template # None
                       THEN RenderTemplate(Get(c.value_template), appointment)
                       ELSE DefaultState(appointment),
             !.icon = appointment.icon,
             !.picture = appointment.picture]

\* _render_date without the date template
RenderDateIso(c, appointment) == IsoDate(appointment.date)

\* _render_date
RenderDate(c, appointment) ==
  IF c.date_template # None
  THEN RenderTemplate(Get(c.date_template), appointment)
  ELSE IsoDate(appointment.date)

RECURSIVE SortTypes(_)
\* sorted(types)
SortTypes(S) ==
  IF S = {} THEN <<>>
  ELSE LET m == CHOOSE a \in S : \A b \in S : TypeRank(a) <= TypeRank(b)
       IN <<m>> \o SortTypes(S \ {m})

\* the nearest-group query with the configured lead time passed on
NearestGroupWithLeadtime(c, scraper, include_today) ==
  GetUpcomingGroupByDay(scraper.entries, Some(1), c.leadtime,
                        c.appointment_types, include_today)

\* the query behind the primary value: the nearest day's group
NearestGroup(c, scraper, include_today) ==
  GetUpcomingGroupByDay(scraper.entries, Some(1), None, c.appointment_types,
                        include_today)

\* the local appointment_types without the filter
AppointmentTypesAll(c, scraper) == SortTypes(GetTypes(scraper.entries))

\* the local appointment_types: the filter, else every known type, sorted
AppointmentTypes(c, scraper) ==
  IF c.appointment_types = None
  THEN SortTypes(GetTypes(scraper.entries))
  ELSE Get(c.appointment_types)

\* the details written into the mapping the entity already holds
KeptAttributes(self) == self.attributes

\* attributes = collections.OrderedDict()
NewAttributes(self) == <<>>

RECURSIVE UpcomingLoop(_, _, _)
\* for appointment in upcoming: attributes[date] = joined types
UpcomingLoop(c, attributes, upcoming) ==
  IF Len(upcoming) = 0 THEN attributes
  ELSE UpcomingLoop(c,
         DictSet(attributes, RenderDate(c, upcoming[1]),
                 StrVal(Join(Separator, upcoming[1].types))),
         Tail(upcoming))

\* details_format upcoming
UpcomingDetails(c, scraper, include_today, attributes) ==
  UpcomingLoop(c, attributes,
    GetUpcomingGroupByDay(scraper.entries, c.count, c.leadtime,
                          c.appointment_types, include_today))

\* the nearest date of one type, rendered, or "" when there is none
TypeDate(c, scraper, include_today, t) ==
  LET appointments ==
        GetUpcoming(scraper.entries, Some(1), None, Some(<<t>>), include_today)
  IN IF Len(appointments) = 0 THEN "" ELSE RenderDate(c, appointments[1])

RECURSIVE TypesLoop(_, _, _, _, _)
\* for t in appointment_types: attributes[t] = date
TypesLoop(c, scraper, include_today, attributes, types) ==
  IF Len(types) = 0 THEN attributes
  ELSE TypesLoop(c, scraper, include_today,
         DictSet(attributes, types[1],
                 StrVal(TypeDate(c, scraper, include_today, types[1]))),
         Tail(types))

\* details_format appointment_types
TypesDetails(c, scraper, include_today, attributes) ==
  TypesLoop(c, scraper, include_today, attributes, AppointmentTypes(c, scraper))

\* details_format generic with the day-grouped query
GenericDetailsGrouped(c, scraper, include_today, attributes) ==
  LET a1 == DictSet(attributes, "types", NamesVal(AppointmentTypes(c, scraper)))
      a2 == DictSet(a1, "upcoming",
              ApptsVal(GetUpcomingGroupByDay(scraper.entries, c.count, c.leadtime,
                                             c.appointment_types, include_today)))
      rt == IF scraper.refreshtime # None
            THEN IsoTime(Get(scraper.refreshtime)) ELSE ""
  IN DictSet(a2, "last_update", StrVal(rt))

\* details_format generic
GenericDetails(c, scraper, include_today, attributes) ==
  LET a1 == DictSet(attributes, "types", NamesVal(AppointmentTypes(c, scraper)))
      a2 == DictSet(a1, "upcoming",
              ApptsVal(GetUpcoming(scraper.entries, c.count, c.leadtime,
                                   c.appointment_types, include_today)))
      rt == IF scraper.refreshtime # None
            THEN IsoTime(Get(scraper.refreshtime)) ELSE ""
  IN DictSet(a2, "last_update", StrVal(rt))

\* the details of the configured format
Details(c, scraper, include_today, attributes) ==
  IF c.details_format = "upcoming"
  THEN UpcomingDetails(c, scraper, include_today, attributes)
  ELSE IF c.details_format = "appointment_types"
  THEN TypesDetails(c, scraper, include_today, attributes)
  ELSE IF c.details_format = "generic"
  THEN GenericDetails(c, scraper, include_today, attributes)
  ELSE attributes

\* if self._scraper is None
ScraperIsNone(sc) == sc = None

\* the out-of-range branch with the value reset
OutOfRangeResets(self, c) ==
  [self |-> [self EXCEPT !.state = ""],
   log |-> <<"source_index " \o ToString(c.source_index) \o " out of range">>,
   notified |-> 0, raised |-> FALSE, last |-> "skipped"]

\* the branch taken for a source index that resolves to nothing
OutOfRange(self, c) ==
  [self |-> self,
   log |-> <<"source_index " \o ToString(c.source_index) \o " out of range">>,
   notified |-> 0, raised |-> FALSE, last |-> "skipped"]

\* the notification sent without the test of self.hass
NotifyAlways(h) == 1

\* if self.hass is not None: self.async_schedule_update_ha_state()
Notify(h) == IF h # None THEN 1 ELSE 0

\* the body of _update_sensor for a resolved source
Refresh(self, c, scraper, hour, h) ==
  LET include_today == IncludeToday(hour)
      s1 == SetState(self, c, NearestGroup(c, scraper, include_today))
      attributes == Details(c, scraper, include_today, NewAttributes(self))
      s2 == [s1 EXCEPT !.attributes = AddRefreshtime(attributes, scraper)]
  IN [self |-> s2, log |-> <<>>, notified |-> Notify(h), raised |-> FALSE,
      last |-> "updated"]

\* _update_sensor: the result of one call.  An attribute read on a source
\* that is None raises and leaves the fields as they are.
UpdateSensor(self, c, scrapers, hour, h) ==
  LET sc == Scraper(c, scrapers)
  IN IF ScraperIsNone(sc) THEN OutOfRange(self, c)
     ELSE IF sc = None
     THEN [self |-> self, log |-> <<>>, notified |-> 0, raised |-> TRUE,
           last |-> "raised"]
     ELSE Refresh(self, c, Get(sc), hour, h)

(* ------------------------------------------------------------------ *)
(* Behaviour.                                                          *)
(* ------------------------------------------------------------------ *)
\* __init__ with any configuration; the source has not fetched yet
Init ==
  /\ cfg \in Configs
  /\ entries = {}
  /\ refreshtime = None
  /\ now \in Hours
  /\ hass = None
  /\ subscribed = TRUE
  /\ _state = InitSelf.state
  /\ _icon = InitSelf.icon
  /\ _picture = InitSelf.picture
  /\ _attributes = InitSelf.attributes
  /\ log = <<>>
  /\ notified = 0
  /\ raised = FALSE
  /\ last = "init"

\* the fields, log and notifications one call of _update_sensor leaves
Apply(r) ==
  /\ _state' = r.self.state
  /\ _icon' = r.self.icon
  /\ _picture' = r.self.picture
  /\ _attributes' = r.self.attributes
  /\ log' = r.log
  /\ notified' = r.notified
  /\ raised' = r.raised
  /\ last' = r.last

\* what a fetch can turn the source's entries into
NextEntries ==
  {entries}
    \cup {entries \cup {e} : e \in {x \in Entries : Cardinality(entries) < MaxEntries}}
    \cup {entries \ {e} : e \in entries}

\* the source fetches new data and UPDATE_SENSORS_SIGNAL is dispatched
\* ("Called if a new data has been fetched from the scraper source")
FetchAndSignal ==
  /\ subscribed
  /\ \E es \in NextEntries, t \in FetchHours :
       /\ entries' = es
       /\ refreshtime' = Some(t)
       /\ Apply(UpdateSensor(Self, cfg,
                  <<[entries |-> es, refreshtime |-> Some(t)]>>, now, hass))
  /\ UNCHANGED <<cfg, now, hass, subscribed>>

\* UPDATE_SENSORS_SIGNAL is dispatched over unchanged data
Signal ==
  /\ subscribed
  /\ Apply(UpdateSensor(Self, cfg, Scrapers, now, hass))
  /\ UNCHANGED <<cfg, entries, refreshtime, now, hass, subscribed>>

\* the host attaches the entity (sets self.hass) and calls
\* async_added_to_hass
AsyncAddedToHass ==
  /\ hass = None
  /\ hass' = Some("hass")
  /\ Apply(UpdateSensor(Self, cfg, Scrapers, now, Some("hass")))
  /\ UNCHANGED <<cfg, entries, refreshtime, now, subscribed>>

\* the clock passes the day switch time, or midnight
Tick ==
  /\ now' \in Hours \ {now}
  /\ last' = "idle"
  /\ UNCHANGED <<cfg, entries, refreshtime, hass, subscribed, _state, _icon,
                 _picture, _attributes, log, notified, raised>>

Next == FetchAndSignal \/ Signal \/ AsyncAddedToHass \/ Tick

Spec == Init /\ [][Next]_vars

(* ------------------------------------------------------------------ *)
(* Properties.                                                         *)
(* ------------------------------------------------------------------ *)
\* the configured source, when the index resolves
Source == Scrapers[1]

Valid == Scraper(cfg, Scrapers) # None

\* a display state left by some earlier refresh of another configuration
StaleSelf ==
  [state |-> "Paper in 2 days", icon |-> Some("mdi:newspaper"),
   picture |-> Some("paper.png"),
   attributes |-> <<[key |-> "Glass", value |-> StrVal("stale")],
                    [key |-> "attribution", value |-> StrVal("stale")],
                    [key |-> "types", value |-> StrVal("stale")],
                    [key |-> "2020-04-23", value |-> StrVal("stale")]>>]

\* display states a refresh may start from
PriorSelves == {InitSelf, Self, StaleSelf}

\* the result of a call of _update_sensor made now from the display state p
Call(p) == UpdateSensor(p, cfg, Scrapers, now, hass)

\* the group the primary value is taken from
Nearest == NearestGroup(cfg, Source, IncludeToday(now))

\* C1: a refresh whose source index resolves to no data source does not
\* raise, writes exactly one error log entry, sends no notification and
\* leaves value, icon, picture and attributes as they were, whatever they
\* were.
C1_OutOfRangeLeavesState ==
  ~Valid =>
    /\ last \in {"init", "skipped", "idle"}
    /\ ~raised
    /\ notified = 0
    /\ Self = InitSelf
    /\ last = "skipped" =>
         log = <<"source_index " \o ToString(cfg.source_index) \o " out of range">>
    /\ \A p \in PriorSelves :
         /\ Call(p).self = p
         /\ Len(Call(p).log) = 1
         /\ Call(p).notified = 0
         /\ ~Call(p).raised

C1_Witness ==
  /\ last = "skipped"
  /\ hass # None
  /\ Cardinality(entries) = 2
  /\ cfg.details_format = "generic"

RelevantTypes ==
  IF cfg.appointment_types # None THEN SeqToSet(Get(cfg.appointment_types))
  ELSE GetTypes(entries)

\* C3 as stated: in appointment_types mode, after a refresh, the set of
\* attribute keys equals the type filter, else the set of known types.
C3_KeysAreTypes ==
  (last = "updated" /\ cfg.details_format = "appointment_types") =>
    Keys(_attributes) = RelevantTypes

\* C3 amended: in appointment_types mode, after a refresh, the set of
\* attribute keys equals the type filter (else the known types) together
\* with the key "attribution"; without a filter the type keys come in
\* lexicographic order.
C3_KeysAreTypesAndAttribution ==
  (last = "updated" /\ cfg.details_format = "appointment_types") =>
    /\ Keys(_attributes) = RelevantTypes \cup {"attribution"}
    /\ Len(_attributes) = Cardinality(RelevantTypes) + 1
    /\ cfg.appointment_types = None =>
         \A i, j \in 1..(Len(_attributes) - 1) :
           i < j => TypeRank(_attributes[i].key) < TypeRank(_attributes[j].key)

C3_Witness ==
  /\ last = "updated"
  /\ cfg.details_format = "appointment_types"
  /\ cfg.appointment_types = None
  /\ Keys(_attributes) = {"Glass", "Paper", "Plastic", "attribution"}

\* the day-groups the upcoming details are built from
UpcomingGroups ==
  GetUpcomingGroupByDay(entries, cfg.count, cfg.leadtime,
                        cfg.appointment_types, IncludeToday(now))

\* the key of a day-group: the date template's output, else the ISO date
DateKey(g) ==
  IF cfg.date_template = None THEN IsoDate(g.date)
  ELSE RenderTemplate(Get(cfg.date_template), g)

\* the attribute of a day-group
GroupEntry(g) ==
  [key |-> DateKey(g), value |-> StrVal(Join(", ", g.types))]

\* the groups of the example: 2020-04-01 [Paper, Plastic], 2020-04-08 [Glass]
ExampleGroups ==
  /\ Len(UpcomingGroups) = 2
  /\ UpcomingGroups[1].date = 2
  /\ UpcomingGroups[1].types = <<"Paper", "Plastic">>
  /\ UpcomingGroups[2].date = 9
  /\ UpcomingGroups[2].types = <<"Glass">>
  /\ cfg.date_template = None

\* C4 as stated: in upcoming mode, after a refresh, the attributes hold
\* one entry for each day-group of the query, in the query's order, keyed
\* by the rendered date and holding the joined type labels; for the
\* example groups they are 2020-04-01: "Paper, Plastic", 2020-04-08: "Glass".
C4_OneEntryPerGroup ==
  (last = "updated" /\ cfg.details_format = "upcoming") =>
    /\ Len(_attributes) >= Len(UpcomingGroups)
    /\ \A i \in 1..Len(UpcomingGroups) :
         i <= Len(_attributes) => _attributes[i] = GroupEntry(UpcomingGroups[i])
    /\ ExampleGroups =>
         /\ Lookup(_attributes, "2020-04-01") = StrVal("Paper, Plastic")
         /\ Lookup(_attributes, "2020-04-08") = StrVal("Glass")

\* C4 amended: in upcoming mode, after a refresh, the attributes hold one
\* entry for each distinct rendered date of the query's day-groups, in
\* the order the dates first occur, each holding the joined type labels
\* of the last group rendered to that date, and then the attribution
\* entry; without a date template that is one entry per group in the
\* query's order, and for the example groups the entries are
\* 2020-04-01: "Paper, Plastic", 2020-04-08: "Glass" and the attribution.
C4_OneEntryPerRenderedDate ==
  (last = "updated" /\ cfg.details_format = "upcoming") =>
    LET gs == UpcomingGroups
        n == Len(_attributes) - 1
        first(k) == CHOOSE i \in 1..Len(gs) :
                      DateKey(gs[i]) = k /\ \A j \in 1..(i - 1) : DateKey(gs[j]) # k
        final(k) == CHOOSE i \in 1..Len(gs) :
                      DateKey(gs[i]) = k /\ \A j \in (i + 1)..Len(gs) : DateKey(gs[j]) # k
    IN /\ n = Cardinality({DateKey(gs[i]) : i \in 1..Len(gs)})
       /\ _attributes[n + 1].key = "attribution"
       /\ {_attributes[i].key : i \in 1..n} = {DateKey(gs[i]) : i \in 1..Len(gs)}
       /\ \A i \in 1..n :
            _attributes[i].value = GroupEntry(gs[final(_attributes[i].key)]).value
       /\ \A i, j \in 1..n :
            i < j => first(_attributes[i].key) < first(_attributes[j].key)
       /\ cfg.date_template = None =>
            /\ n = Len(gs)
            /\ \A i \in 1..n : _attributes[i] = GroupEntry(gs[i])
       /\ ExampleGroups =>
            /\ n = 2
            /\ _attributes[1] = [key |-> "2020-04-01", value |-> StrVal("Paper, Plastic")]
            /\ _attributes[2] = [key |-> "2020-04-08", value |-> StrVal("Glass")]

C4_Witness ==
  /\ last = "updated"
  /\ cfg.details_format = "upcoming"
  /\ ExampleGroups
  /\ Len(_attributes) = 3
  /\ _state = "Paper, Plastic in 2 days"

\* C5: with a value template and a nearest group, the value after the
\* refresh is the template's output for that group: the synthesized
\* "<types> in <N> days" text is neither used nor appended, and icon and
\* picture are the group's.
C5_TemplateOverrides ==
  (last = "updated" /\ cfg.value_template # None /\ Len(Nearest) > 0) =>
    /\ _state = RenderTemplate(Get(cfg.value_template), Nearest[1])
    /\ _state = ToString(Nearest[1].daysTo)
    /\ _state # Join(", ", Nearest[1].types) \o " in "
                  \o ToString(Nearest[1].daysTo) \o " days"
    /\ _icon = Nearest[1].icon
    /\ _picture = Nearest[1].picture

C5_Witness ==
  /\ last = "updated"
  /\ cfg.value_template # None
  /\ Len(Nearest) > 0
  /\ Len(Nearest[1].types) = 2
  /\ _icon # None
  /\ _state = "2"

\* the last-refresh time of the source as strftime("%x %X") prints it,
\* "" before the first fetch
RefreshText ==
  IF refreshtime = None THEN ""
  ELSE "03/30/20 " \o Pad2(Get(refreshtime)) \o ":00:00"

\* C6 as stated: after a refresh the last attribute is attribution and
\* its value is the last-refresh time of the source, the empty string if
\* the source has never fetched.
C6_AttributionIsTime ==
  last = "updated" =>
    /\ Len(_attributes) > 0
    /\ _attributes[Len(_attributes)] =
         [key |-> "attribution", value |-> StrVal(RefreshText)]

\* C6 amended: after a refresh, in every details format, the last
\* attribute is attribution (no other key being named attribution) and
\* its value is "Last update: " followed by the last-refresh time of the
\* source, which is empty if the source has never fetched, so that the
\* value is then "Last update: ".
C6_AttributionIsLastUpdate ==
  last = "updated" =>
    /\ Len(_attributes) > 0
    /\ _attributes[Len(_attributes)] =
         [key |-> "attribution", value |-> StrVal("Last update: " \o RefreshText)]
    /\ \A i \in 1..(Len(_attributes) - 1) : _attributes[i].key # "attribution"
    /\ refreshtime = None =>
         Lookup(_attributes, "attribution") = StrVal("Last update: ")

C6_Witness ==
  /\ last = "updated"
  /\ refreshtime = None
  /\ hass # None
  /\ Lookup(_attributes, "attribution").text = "Last update: "

\* C7: the display state after a refresh depends on the configuration and
\* the source's answers only: a refresh from any display state gives what
\* it gives from a newly constructed entity, nothing of the earlier
\* attributes survives, and a second refresh over unchanged data changes
\* nothing.
C7_RefreshReplaces ==
  Valid =>
    /\ \A p \in PriorSelves : Call(p).self = Call(InitSelf).self
    /\ last = "updated" =>
         /\ Self = Call(InitSelf).self
         /\ Call(Self).self = Self
         /\ Call(Call(StaleSelf).self).self = Self
         /\ ~HasKey(_attributes, "2020-04-23")

C7_Witness ==
  /\ last = "updated"
  /\ cfg.details_format = "appointment_types"
  /\ cfg.appointment_types = None
  /\ Keys(_attributes) = {"Paper", "attribution"}
  /\ Call(StaleSelf).self = Self
  /\ hass # None

\* what holds of the entity at every moment of its life
LifecycleState ==
  /\ subscribed
  /\ last = "init" =>
       /\ _state = "unknown"
       /\ _icon = None
       /\ _picture = None
       /\ _attributes = <<>>
       /\ notified = 0
  /\ last = "updated" =>
       /\ notified = (IF hass # None THEN 1 ELSE 0)
       /\ _state # "unknown"
       /\ Len(_attributes) > 0
  /\ last = "skipped" => notified = 0
  /\ hass # None => last # "init"

\* what holds of every step: new data is followed by a refresh, and so
\* is the attachment, which notifies once when the refresh completes
LifecycleStep ==
  /\ LifecycleState
  /\ LifecycleState'
  /\ (entries' # entries \/ refreshtime' # refreshtime) =>
       /\ last' \in {"updated", "skipped"}
       /\ hass' = hass
       /\ cfg.source_index = 0 => last' = "updated"
  /\ (hass = None /\ hass' # None) =>
       /\ last' \in {"updated", "skipped"}
       /\ notified' = (IF last' = "updated" THEN 1 ELSE 0)
       /\ cfg.source_index = 0 => last' = "updated"
  /\ hass # None => hass' = hass

\* C8: the entity starts with value unknown and no attributes; it is
\* subscribed from construction on, so a broadcast refreshes it also
\* before it is attached; attaching it refreshes it once; a completed
\* refresh sends one notification if the entity is attached and none if
\* it is not.
C8_Lifecycle == [][LifecycleStep]_vars

C8_Witness ==
  /\ last = "updated"
  /\ hass = None
  /\ notified = 0
  /\ _state = "Glass in 9 days"
  /\ Len(_attributes) = 2

\* C9: in generic mode, after a refresh, the attributes are types (the
\* filter list, else the known types in lexicographic order), upcoming
\* (the ungrouped list get_upcoming returns for count, leadtime, types
\* and include_today), last_update (the source's last fetch time in ISO
\* form, "" before the first fetch) and the attribution.
C9_GenericAttributes ==
  (last = "updated" /\ cfg.details_format = "generic") =>
    LET names == Lookup(_attributes, "types").names
        appts == Lookup(_attributes, "upcoming")
    IN /\ [i \in 1..Len(_attributes) |-> _attributes[i].key] =
            <<"types", "upcoming", "last_update", "attribution">>
       /\ cfg.appointment_types # None => names = Get(cfg.appointment_types)
       /\ cfg.appointment_types = None =>
            /\ SeqToSet(names) = GetTypes(entries)
            /\ \A i, j \in 1..Len(names) :
                 i < j => TypeRank(names[i]) < TypeRank(names[j])
       /\ appts = ApptsVal(GetUpcoming(entries, cfg.count, cfg.leadtime,
                             cfg.appointment_types, IncludeToday(now)))
       /\ \A i \in 1..Len(appts.appts) : Len(appts.appts[i].types) = 1
       /\ Lookup(_attributes, "last_update") =
            StrVal(IF refreshtime = None THEN ""
                   ELSE "2020-03-30T" \o Pad2(Get(refreshtime)) \o ":00:00")

C9_Witness ==
  /\ last = "updated"
  /\ cfg.details_format = "generic"
  /\ cfg.appointment_types = None
  /\ cfg.count = None
  /\ Lookup(_attributes, "types").names = <<"Glass", "Paper", "Plastic">>
  /\ Len(Lookup(_attributes, "upcoming").appts) = 3
  /\ Lookup(_attributes, "last_update").text = "2020-03-30T01:00:00"

\* the configuration with another count and lead time
WithLimits(n, l) == [cfg EXCEPT !.count = n, !.leadtime = l]

\* C10: count and leadtime have no part in value, icon and picture, nor
\* in the per-type dates of appointment_types mode: the value is taken
\* from the first day-group of the query without count and lead time,
\* and any two configurations that differ in count and leadtime only
\* show the same value, icon and picture (and the same attributes in
\* appointment_types mode) after a refresh.
C10_LimitsNotInValue ==
  last = "updated" =>
    LET all == GetUpcomingGroupByDay(entries, None, None, cfg.appointment_types,
                                     IncludeToday(now))
    IN /\ Len(all) = 0 => _state = ""
       /\ Len(all) > 0 =>
            /\ _icon = all[1].icon
            /\ _picture = all[1].picture
            /\ cfg.value_template = None =>
                 _state = Join(", ", all[1].types) \o " in "
                            \o ToString(all[1].daysTo) \o " days"
       /\ \A n \in Counts, l \in Leadtimes :
            LET other == UpdateSensor(InitSelf, WithLimits(n, l), Scrapers, now, hass).self
            IN /\ other.state = _state
               /\ other.icon = _icon
               /\ other.picture = _picture
               /\ cfg.details_format = "appointment_types" =>
                    other.attributes = _attributes

\* in upcoming mode with a lead time, the day shown in the value is
\* missing from the details
C10_Witness ==
  /\ last = "updated"
  /\ cfg.details_format = "upcoming"
  /\ cfg.leadtime # None
  /\ cfg.count # None
  /\ cfg.date_template = None
  /\ Len(Nearest) > 0
  /\ _state = "Paper in 2 days"
  /\ ~HasKey(_attributes, IsoDate(Nearest[1].date))
  /\ Len(_attributes) = 2

====
